---------------------------- MODULE Spec2Model ----------------------------
(***************************************************************************)
(* NII stress-test dashboards (corp.py, corp2.py, corp3.py, corp_fin.py).  *)
(*                                                                         *)
(* Each file is a Streamlit script: every change of a widget, and every    *)
(* refresh of the cached FRED data, runs the whole script again from the   *)
(* widget values.  The state is the script being served (app), its widget  *)
(* values (ui), the fetched yields (yields_current, hist) and the values   *)
(* the last run of the script left in its variables (out).                 *)
(*                                                                         *)
(* Arithmetic is exact.  Units:                                            *)
(*   yields and shifts  basis points          (0.0425 is 425)              *)
(*   balances           hundredths of $M      (120 is 12000)               *)
(*   money              balance * yield, 10^-6 $M   (one cent of $M is     *)
(*                      10000 of them)                                     *)
(* A float that pandas sets to NaN is the value NaN below.                 *)
(***************************************************************************)
EXTENDS Integers, Sequences, FiniteSets, TLC

VARIABLES app, ui, yields_current, hist, out, edits

vars == <<app, ui, yields_current, hist, out, edits>>

\* Widget changes explored after the first run of a session.
MaxEdits == 1

-----------------------------------------------------------------------------
(* Python and pandas values                                                *)

RECURSIVE SumTo(_, _)
\* f[1] + ... + f[n]
SumTo(f, n) == IF n = 0 THEN 0 ELSE SumTo(f, n - 1) + f[n]

\* sum of a sequence of integers
SeqSum(s) == SumTo(s, Len(s))

Min(a, b) == IF a < b THEN a ELSE b

\* One cent of $M in money units: round(x, 2) rounds to a multiple of it.
Cent == 10000

\* Python's round(x, 2) on an exact value: to the nearest cent, a tie to the
\* even cent.
round2(x) ==
    LET q == x \div Cent
        r == x % Cent
    IN  IF 2 * r < Cent THEN q * Cent
        ELSE IF 2 * r > Cent THEN (q + 1) * Cent
        ELSE IF q % 2 = 0 THEN q * Cent ELSE (q + 1) * Cent

\* A float64: a number or NaN.
NaN == [nan |-> TRUE, v |-> 0]
Num(n) == [nan |-> FALSE, v |-> n]

\* float arithmetic: NaN is absorbing
f_add(a, b) == IF a.nan \/ b.nan THEN NaN ELSE Num(a.v + b.v)
f_sub(a, b) == IF a.nan \/ b.nan THEN NaN ELSE Num(a.v - b.v)

\* A Python value that is a plain number, or a pandas Series: a function from
\* index labels to floats.
Scalar(n) == [kind |-> "scalar", v |-> n]
Series(f) == [kind |-> "Series", s |-> f]

\* Series op Series aligns the two indexes: the result has the union of the
\* labels, NaN at a label that either side lacks.
align_add(s, t) ==
    [i \in (DOMAIN s) \cup (DOMAIN t) |->
        IF i \in DOMAIN s /\ i \in DOMAIN t THEN f_add(s[i], t[i]) ELSE NaN]
align_sub(s, t) ==
    [i \in (DOMAIN s) \cup (DOMAIN t) |->
        IF i \in DOMAIN s /\ i \in DOMAIN t THEN f_sub(s[i], t[i]) ELSE NaN]

\* x + y and x - y of Python: a number broadcasts over a Series.
py_add(x, y) ==
    CASE x.kind = "scalar" /\ y.kind = "scalar" -> Scalar(x.v + y.v)
      [] x.kind = "scalar" /\ y.kind = "Series" ->
            Series([i \in DOMAIN y.s |-> f_add(Num(x.v), y.s[i])])
      [] x.kind = "Series" /\ y.kind = "scalar" ->
            Series([i \in DOMAIN x.s |-> f_add(x.s[i], Num(y.v))])
      [] OTHER -> Series(align_add(x.s, y.s))
py_sub(x, y) ==
    CASE x.kind = "scalar" /\ y.kind = "scalar" -> Scalar(x.v - y.v)
      [] x.kind = "scalar" /\ y.kind = "Series" ->
            Series([i \in DOMAIN y.s |-> f_sub(Num(x.v), y.s[i])])
      [] x.kind = "Series" /\ y.kind = "scalar" ->
            Series([i \in DOMAIN x.s |-> f_sub(x.s[i], Num(y.v))])
      [] OTHER -> Series(align_sub(x.s, y.s))

RECURSIVE py_sum_to(_, _)
py_sum_to(terms, n) ==
    IF n = 0 THEN Scalar(0) ELSE py_add(py_sum_to(terms, n - 1), terms[n])

\* the builtin sum(...) over the terms a generator yields: 0 + t1 + t2 + ...
py_sum(terms) == py_sum_to(terms, Len(terms))

\* df[col].sum() of a frame whose column holds integers
col_sum(df, col) == SeqSum([k \in 1..Len(df) |-> df[k][col]])

\* df[col] as a Series: the frame's index labels to the column's values
column(df, col) ==
    [i \in {df[k]["index"] : k \in 1..Len(df)} |->
        LET k == CHOOSE j \in 1..Len(df) : df[j]["index"] = i
        IN  Num(df[k][col])]

\* series * number
scale(s, k) == Series([i \in DOMAIN s |-> IF s[i].nan THEN NaN ELSE Num(s[i].v * k)])

\* df[df[col].isin(values)]: the rows whose column is one of the values, in
\* order, labels kept
RECURSIVE select_to(_, _, _, _)
select_to(df, col, values, n) ==
    IF n = 0 THEN << >>
    ELSE LET head == select_to(df, col, values, n - 1)
         IN  IF df[n][col] \in values THEN Append(head, df[n]) ELSE head

select_rows(df, col, values) == select_to(df, col, values, Len(df))

-----------------------------------------------------------------------------
(* Tables shared by the scripts                                            *)

yield_codes == <<"GS3M", "GS1", "GS5", "GS10">>

yield_labels == [GS3M |-> "3M", GS1 |-> "1Y", GS5 |-> "5Y", GS10 |-> "10Y"]

Codes == {yield_codes[k] : k \in 1..Len(yield_codes)}

\* preset.items(), in dict order; shifts in basis points
preset_names ==
    <<"Baseline (0 bp)", "Adverse (-100 bp)", "Severely Adverse (-250 bp)",
      "Rate Hike Shock (+100 bp)", "Extreme Hike (+200 bp)">>

preset ==
    ("Baseline (0 bp)" :> 0) @@ ("Adverse (-100 bp)" :> -100) @@
    ("Severely Adverse (-250 bp)" :> -250) @@
    ("Rate Hike Shock (+100 bp)" :> 100) @@ ("Extreme Hike (+200 bp)" :> 200)

macro_names == <<"Baseline", "Adverse", "Severely Adverse">>

macro_scenarios ==
    ("Baseline" :> [shifts |-> [c \in Codes |-> 0]]) @@
    ("Adverse" :> [shifts |-> [c \in Codes |-> -100]]) @@
    ("Severely Adverse" :> [shifts |-> [c \in Codes |-> -250]])

-----------------------------------------------------------------------------
(* corp_fin.py, tab 1: rate shock and NII                                  *)

base_shift(w) ==
    IF w.scenario_name = "Custom" THEN w.bps_shift ELSE preset[w.scenario_name]

\* shifts_map that adds the rate-shock amount to the regulatory shifts
shifts_map_stacked(w) ==
    IF w.macro_choice = "Baseline"
    THEN [c \in Codes |-> base_shift(w)]
    ELSE [c \in Codes |-> macro_scenarios[w.macro_choice].shifts[c] + base_shift(w)]

shifts_map(w) ==
    IF w.macro_choice = "Baseline"
    THEN [c \in Codes |-> base_shift(w)]
    ELSE macro_scenarios[w.macro_choice].shifts

assets(w) ==
    <<[Type |-> "Loans", Balance |-> w.loans, Code |-> "GS5"],
      [Type |-> "Bonds", Balance |-> w.bonds, Code |-> "GS10"],
      [Type |-> "Cash", Balance |-> w.cash, Code |-> "GS3M"]>>

liabs(w) ==
    <<[Type |-> "Deposits", Balance |-> w.deposits, Code |-> "GS1"],
      [Type |-> "Short Borrow", Balance |-> w.borrow, Code |-> "GS3M"],
      [Type |-> "Corp Bonds", Balance |-> w.corp, Code |-> "GS3M"]>>

\* calc that leaves out the division by 100
calc_percent(sheet, yields_map, fld) ==
    [sheet |-> sheet,
     df |-> [k \in 1..Len(sheet) |->
                LET rate == yields_map[sheet[k].Code] * 100
                IN  sheet[k] @@ ("Rate(%)" :> rate)
                             @@ (fld :> sheet[k].Balance * rate)]]

\* calc works on df = sheet.copy(): df gets a rate column in percent
\* (hundredths of a basis point here) and the income or expense column
\* Balance * Rate(%) / 100.  The result holds df and the caller's sheet as the
\* call leaves it.
calc(sheet, yields_map, fld) ==
    [sheet |-> sheet,
     df |-> [k \in 1..Len(sheet) |->
                LET rate == yields_map[sheet[k].Code] * 100
                IN  sheet[k] @@ ("Rate(%)" :> rate)
                             @@ (fld :> (sheet[k].Balance * rate) \div 100)]]

shifted(yc, sm) == [c \in Codes |-> yc[c] + sm[c]]

\* a_calc['Income'].sum() - l_calc['Expense'].sum()
stressed_nii(a_calc, l_calc) == col_sum(a_calc, "Income") - col_sum(l_calc, "Expense")

\* The NII of the two sheets under one curve, as every sweep computes it.
nii_under(a, l, m) ==
    col_sum(calc(a, m, "Income").df, "Income")
        - col_sum(calc(l, m, "Expense").df, "Expense")

\* rs with its rows sorted by NII value, lowest first
rs_sorted_by_nii(a, l, yc) ==
    LET rows == [k \in 1..Len(preset_names) |->
                    LET name == preset_names[k]
                        m == [c \in Codes |-> yc[c] + preset[name]]
                    IN  [Scenario |-> name, NII |-> round2(nii_under(a, l, m))]]
        rank(k) == 1 + Cardinality({j \in DOMAIN rows :
                        \/ rows[j].NII < rows[k].NII
                        \/ rows[j].NII = rows[k].NII /\ j < k})
    IN  [p \in DOMAIN rows |-> rows[CHOOSE k \in DOMAIN rows : rank(k) = p]]

\* Rate-shock outcomes: one row per preset, in the preset's order.
rs(a, l, yc) ==
    [k \in 1..Len(preset_names) |->
        LET name == preset_names[k]
            m == [c \in Codes |-> yc[c] + preset[name]]
        IN  [Scenario |-> name, NII |-> round2(nii_under(a, l, m))]]

\* Regulatory stress outcomes: one row per macro scenario.
ms(a, l, yc) ==
    [k \in 1..Len(macro_names) |->
        LET name == macro_names[k]
            m == [c \in Codes |-> yc[c] + macro_scenarios[name].shifts[c]]
        IN  [Scenario |-> name, NII |-> round2(nii_under(a, l, m))]]

-----------------------------------------------------------------------------
(* corp_fin.py: NII waterfall                                              *)

balances(w) ==
    ("3M" :> w.cash) @@ ("1Y" :> w.deposits) @@ ("5Y" :> w.loans) @@ ("10Y" :> w.bonds)

\* The loop over yield_labels.items(): per tenor the unrounded i0 and i1.
tenor_income(w, yc, sh) ==
    [k \in 1..Len(yield_codes) |->
        LET c == yield_codes[k]
            bal == balances(w)[yield_labels[c]]
        IN  [Maturity |-> yield_labels[c], i0 |-> bal * yc[c], i1 |-> bal * sh[c]]]

deltas(w, yc, sh) ==
    [k \in 1..Len(yield_codes) |->
        LET t == tenor_income(w, yc, sh)[k]
        IN  [Maturity |-> t.Maturity, DeltaNII |-> round2(t.i1 - t.i0)]]

b0_sum(w, yc, sh) ==
    SeqSum([k \in 1..Len(yield_codes) |-> tenor_income(w, yc, sh)[k].i0])

b1_sum(w, yc, sh) ==
    SeqSum([k \in 1..Len(yield_codes) |-> tenor_income(w, yc, sh)[k].i1])

\* Start = DeltaNII.cumsum().shift(fill_value=0), End = Start + DeltaNII
with_start_end(rows) ==
    [k \in 1..Len(rows) |->
        LET start == SeqSum([j \in 1..(k - 1) |-> rows[j].DeltaNII])
        IN  rows[k] @@ [Start |-> start, End |-> start + rows[k].DeltaNII]]

wf1(w, yc, sh) ==
    with_start_end(
        <<[Maturity |-> "Baseline", DeltaNII |-> 0]>>
        \o deltas(w, yc, sh)
        \o <<[Maturity |-> "Total",
              DeltaNII |-> round2(b1_sum(w, yc, sh) - b0_sum(w, yc, sh))]>>)
-----------------------------------------------------------------------------
(* corp_fin.py: P&L explain                                                *)

bu_map ==
    ("Loans" :> "Corporate") @@ ("Bonds" :> "Corporate") @@ ("Cash" :> "Corporate") @@
    ("Deposits" :> "Retail") @@ ("Short Borrow" :> "Corporate") @@
    ("Corp Bonds" :> "Corporate")

AssetTypes == {"Loans", "Bonds", "Cash"}
LiabTypes == {"Deposits", "Short Borrow", "Corp Bonds"}

\* b0 and b1 are lists of six balances; the frame's index is 0..5
make_sheet(b0, b1) ==
    <<[index |-> 0, Type |-> "Loans", B0 |-> b0[1], B1 |-> b1[1], Code |-> "GS5",
       BU |-> bu_map["Loans"]],
      [index |-> 1, Type |-> "Bonds", B0 |-> b0[2], B1 |-> b1[2], Code |-> "GS10",
       BU |-> bu_map["Bonds"]],
      [index |-> 2, Type |-> "Cash", B0 |-> b0[3], B1 |-> b1[3], Code |-> "GS3M",
       BU |-> bu_map["Cash"]],
      [index |-> 3, Type |-> "Deposits", B0 |-> b0[4], B1 |-> b1[4], Code |-> "GS1",
       BU |-> bu_map["Deposits"]],
      [index |-> 4, Type |-> "Short Borrow", B0 |-> b0[5], B1 |-> b1[5], Code |-> "GS3M",
       BU |-> bu_map["Short Borrow"]],
      [index |-> 5, Type |-> "Corp Bonds", B0 |-> b0[6], B1 |-> b1[6], Code |-> "GS3M",
       BU |-> bu_map["Corp Bonds"]]>>

start_balances(w) ==
    <<w.loans_start, w.bonds_start, w.cash_start,
      w.deposits_start, w.borrow_start, w.corp_start>>

end_balances(w) ==
    <<w.loans_end, w.bonds_end, w.cash_end, w.deposits_end, w.borrow_end, w.corp_end>>

bu_filter(df, bu_choice) ==
    IF bu_choice # "All" THEN select_rows(df, "BU", {bu_choice}) ELSE df

start_df(w) == bu_filter(make_sheet(start_balances(w), start_balances(w)), w.bu_choice)

end_df(w) == bu_filter(make_sheet(end_balances(w), end_balances(w)), w.bu_choice)

\* r0_map and r1_map: the first and the last row of the history, by code
r0_map(h) == [c \in Codes |-> h.fy[yield_labels[c]]]
r1_map(h) == [c \in Codes |-> h.ly[yield_labels[c]]]

\* sum(x[col] * f(c) for c in x['Code']): every term is the whole column
\* times the factor of one code
sum_column_times(x, col, f) ==
    py_sum([k \in 1..Len(x) |-> scale(column(x, col), f[x[k].Code])])

\* sum((b1-b0) * f(c) for b0, b1, c in zip(x0['B0'], x1['B1'], x0['Code']))
sum_zip(x0, x1, f) ==
    py_sum([k \in 1..Min(Len(x0), Len(x1)) |->
                Scalar((x1[k].B1 - x0[k].B0) * f[x0[k].Code])])

rate_var(a0, l0, r0, r1) ==
    LET dr == [c \in Codes |-> r1[c] - r0[c]]
    IN  py_sub(sum_column_times(a0, "B0", dr), sum_column_times(l0, "B0", dr))

\* vol_var with the end balances of the assets taken from the liabilities
vol_var_mispaired(a0, a1, l0, l1, r0) == py_sub(sum_zip(a0, l1, r0), sum_zip(l0, l1, r0))

vol_var(a0, a1, l0, l1, r0) == py_sub(sum_zip(a0, a1, r0), sum_zip(l0, l1, r0))

mix_var(a0, a1, l0, l1, r0, r1) ==
    LET dr == [c \in Codes |-> r1[c] - r0[c]]
    IN  py_sub(sum_zip(a0, a1, dr), sum_zip(l0, l1, dr))

nii0(a0, l0, r0) ==
    py_sub(sum_column_times(a0, "B0", r0), sum_column_times(l0, "B0", r0))

nii1(a1, l1, r1) ==
    py_sub(sum_column_times(a1, "B1", r1), sum_column_times(l1, "B1", r1))

-----------------------------------------------------------------------------
(* corp_fin.py: repricing gap                                              *)

tenor_map ==
    ("Cash" :> "0-3M") @@ ("Short Borrow" :> "0-3M") @@ ("Deposits" :> "3-12M") @@
    ("Loans" :> "1-5Y") @@ ("Bonds" :> "5Y+") @@ ("Corp Bonds" :> "5Y+")

\* dur_map.keys(), in dict order
dur_keys == <<"0-3M", "3-12M", "1-5Y", "5Y+">>

\* frame['Bucket'] = frame['Type'].map(tenor_map)
with_bucket(frame) ==
    [k \in 1..Len(frame) |-> frame[k] @@ [Bucket |-> tenor_map[frame[k].Type]]]

\* frame.groupby('Bucket')['Balance'].sum(): a Series over the buckets that
\* have a row
groupby_sum(frame) ==
    [b \in {frame[k].Bucket : k \in 1..Len(frame)} |->
        Num(col_sum(select_rows(frame, "Bucket", {b}), "Balance"))]

\* gap without .reindex(dur_map.keys()): only the buckets that have a row
gap_not_reindexed(a, l) ==
    LET diff == align_sub(groupby_sum(a), groupby_sum(l))
    IN  [b \in DOMAIN diff |-> IF diff[b].nan THEN Num(0) ELSE diff[b]]

\* (assets sums - liabs sums).reindex(dur_map.keys()).fillna(0)
gap(a, l) ==
    LET diff == align_sub(groupby_sum(a), groupby_sum(l))
        reindexed == [b \in {dur_keys[k] : k \in 1..Len(dur_keys)} |->
                         IF b \in DOMAIN diff THEN diff[b] ELSE NaN]
    IN  [b \in DOMAIN reindexed |->
            IF reindexed[b].nan THEN Num(0) ELSE reindexed[b]]

\* dur_map, in quarters of a year (0.25, 0.75, 3.0, 7.5)
dur_map ==
    ("0-3M" :> 1) @@ ("3-12M" :> 3) @@ ("1-5Y" :> 12) @@ ("5Y+" :> 30)

\* the (name, bp) pairs of the DV01 loop; bp (0.00, -0.01, -0.025) in basis
\* points like every yield
dv01_scenarios ==
    <<[name |-> "Baseline", bp |-> 0], [name |-> "Adverse", bp |-> -100],
      [name |-> "Severely Adverse", bp |-> -250]>>

\* gap.rename("Gap").reset_index(): one row per bucket, in the index order
df_gap(g) ==
    [k \in 1..Len(dur_keys) |-> [Bucket |-> dur_keys[k], Gap |-> g[dur_keys[k]].v]]

\* dv01 = pos * D * (bp * 100) for every scenario and, inside, every row of
\* df_gap.  bp * 100 is the shift in percent (0, -1, -2.5), held in halves of
\* a percent (bp in basis points \div 50); DV01 is in 1/800 of $M x year.
dv01_rows(g) ==
    [i \in 1..(Len(dv01_scenarios) * Len(dur_keys)) |->
        LET s == dv01_scenarios[((i - 1) \div Len(dur_keys)) + 1]
            row == df_gap(g)[((i - 1) % Len(dur_keys)) + 1]
        IN  [Scenario |-> s.name, Bucket |-> row.Bucket,
             DV01 |-> row.Gap * dur_map[row.Bucket] * (s.bp \div 50)]]

-----------------------------------------------------------------------------
(* corp_fin.py: one run of the script                                      *)

corp_fin(w, yc, h) ==
    LET sm == shifts_map(w)
        sh == shifted(yc, sm)
        a_res == calc(assets(w), sh, "Income")
        l_res == calc(liabs(w), sh, "Expense")
        a0 == select_rows(start_df(w), "Type", AssetTypes)
        a1 == select_rows(end_df(w), "Type", AssetTypes)
        l0 == select_rows(start_df(w), "Type", LiabTypes)
        l1 == select_rows(end_df(w), "Type", LiabTypes)
        r0 == r0_map(h)
        r1 == r1_map(h)
        a_bkt == with_bucket(a_res.sheet)
        l_bkt == with_bucket(l_res.sheet)
    IN  [shifts_map |-> sm,
         shifted |-> sh,
         a_calc |-> a_res.df,
         l_calc |-> l_res.df,
         stressed_nii |-> stressed_nii(a_res.df, l_res.df),
         rs |-> rs(a_res.sheet, l_res.sheet, yc),
         ms |-> ms(a_res.sheet, l_res.sheet, yc),
         wf1 |-> wf1(w, yc, sh),
         rate_var |-> rate_var(a0, l0, r0, r1),
         vol_var |-> vol_var(a0, a1, l0, l1, r0),
         mix_var |-> mix_var(a0, a1, l0, l1, r0, r1),
         nii0 |-> nii0(a0, l0, r0),
         nii1 |-> nii1(a1, l1, r1),
         assets |-> a_bkt,
         liabs |-> l_bkt,
         gap |-> gap(a_bkt, l_bkt),
         dv01_rows |-> dv01_rows(gap(a_bkt, l_bkt))]
-----------------------------------------------------------------------------
(* corp3.py: the rate-shock dashboard without the P&L explain              *)

corp3_base_shift(w) ==
    IF w.scenario_name = "Custom" THEN w.bps_shift ELSE preset[w.scenario_name]

corp3_shifts_map(w) ==
    IF w.macro_choice = "Baseline"
    THEN [c \in Codes |-> corp3_base_shift(w)]
    ELSE macro_scenarios[w.macro_choice].shifts

corp3_calc(sheet, yields_map, fld) ==
    [sheet |-> sheet,
     df |-> [k \in 1..Len(sheet) |->
                LET rate == yields_map[sheet[k].Code] * 100
                IN  sheet[k] @@ ("Rate (%)" :> rate)
                             @@ (fld :> (sheet[k].Balance * rate) \div 100)]]

corp3_shifted(yc, sm) == [c \in Codes |-> yc[c] + sm[c]]

corp3_nii(a_calc, l_calc) == col_sum(a_calc, "Income") - col_sum(l_calc, "Expense")

corp3_nii_under(a, l, m) ==
    col_sum(corp3_calc(a, m, "Income").df, "Income")
        - col_sum(corp3_calc(l, m, "Expense").df, "Expense")

corp3_rs(a, l, yc) ==
    [k \in 1..Len(preset_names) |->
        LET name == preset_names[k]
            m == [c \in Codes |-> yc[c] + preset[name]]
        IN  [Scenario |-> name, NII |-> round2(corp3_nii_under(a, l, m))]]

corp3_ms(a, l, yc) ==
    [k \in 1..Len(macro_names) |->
        LET name == macro_names[k]
            m == [c \in Codes |-> yc[c] + macro_scenarios[name].shifts[c]]
        IN  [Scenario |-> name, NII |-> round2(corp3_nii_under(a, l, m))]]

\* The loop over yield_labels.items(): per tenor the unrounded i0 and i1.
corp3_tenor_income(w, yc, sh) ==
    [k \in 1..Len(yield_codes) |->
        LET code == yield_codes[k]
            bal == balances(w)[yield_labels[code]]
        IN  [Maturity |-> yield_labels[code], i0 |-> bal * yc[code],
             i1 |-> bal * sh[code]]]

corp3_deltas(w, yc, sh) ==
    [k \in 1..Len(yield_codes) |->
        LET t == corp3_tenor_income(w, yc, sh)[k]
        IN  [Maturity |-> t.Maturity, DeltaNII |-> round2(t.i1 - t.i0)]]

corp3_base_nii(w, yc, sh) ==
    SeqSum([k \in 1..Len(yield_codes) |-> corp3_tenor_income(w, yc, sh)[k].i0])

corp3_strs_nii(w, yc, sh) ==
    SeqSum([k \in 1..Len(yield_codes) |-> corp3_tenor_income(w, yc, sh)[k].i1])

corp3_wf(w, yc, sh) ==
    with_start_end(
        <<[Maturity |-> "Baseline", DeltaNII |-> 0]>>
        \o corp3_deltas(w, yc, sh)
        \o <<[Maturity |-> "Total",
              DeltaNII |-> round2(corp3_strs_nii(w, yc, sh) - corp3_base_nii(w, yc, sh))]>>)

corp3(w, yc) ==
    LET sm == corp3_shifts_map(w)
        sh == corp3_shifted(yc, sm)
        a_res == corp3_calc(assets(w), sh, "Income")
        l_res == corp3_calc(liabs(w), sh, "Expense")
    IN  [shifts_map |-> sm,
         shifted |-> sh,
         a_calc |-> a_res.df,
         l_calc |-> l_res.df,
         nii |-> corp3_nii(a_res.df, l_res.df),
         rs |-> corp3_rs(a_res.sheet, l_res.sheet, yc),
         ms |-> corp3_ms(a_res.sheet, l_res.sheet, yc),
         wf |-> corp3_wf(w, yc, sh),
         assets |-> a_res.sheet,
         liabs |-> l_res.sheet]

-----------------------------------------------------------------------------
(* corp2.py: regulatory presets and the tenor-netted waterfall             *)

reg_names == <<"Parallel +200 bp", "Curve Twist", "Steepener", "Flattener">>

reg_preset ==
    ("Parallel +200 bp" :> [all |-> 200]) @@
    ("Curve Twist" :> (("3M" :> 200) @@ ("1Y" :> 100) @@ ("5Y" :> -100) @@ ("10Y" :> -200))) @@
    ("Steepener" :> (("3M" :> -100) @@ ("1Y" :> 0) @@ ("5Y" :> 100) @@ ("10Y" :> 200))) @@
    ("Flattener" :> (("3M" :> 100) @@ ("1Y" :> 200) @@ ("5Y" :> -100) @@ ("10Y" :> -200)))

\* d.get(k, default)
dict_get(d, k, default) == IF k \in DOMAIN d THEN d[k] ELSE default

\* the yields under one preset: the 'all' entry for every code, else the
\* entry of the code's label, 0 for a label the preset lacks
corp2_shock_yields(shock, yc) ==
    [c \in Codes |->
        IF "all" \in DOMAIN shock
        THEN yc[c] + shock["all"]
        ELSE yc[c] + dict_get(shock, yield_labels[c], 0)]

\* the same build with the yields floored at 0
corp2_shifts_floored(presets, w, yc) ==
    IF w.scenario = "Custom"
    THEN [c \in Codes |-> yc[c] + w.bps_shift]
    ELSE LET shock == presets[w.scenario]
             y(c) == IF "all" \in DOMAIN shock
                     THEN yc[c] + shock["all"]
                     ELSE yc[c] + dict_get(shock, yield_labels[c], 0)
         IN  [c \in Codes |-> IF y(c) < 0 THEN 0 ELSE y(c)]

\* the shift map built for the selected scenario, under a registry of
\* presets: its own copy of the loop over yield_codes
corp2_shifts_under(presets, w, yc) ==
    IF w.scenario = "Custom"
    THEN [c \in Codes |-> yc[c] + w.bps_shift]
    ELSE LET shock == presets[w.scenario]
         IN  [c \in Codes |->
                IF "all" \in DOMAIN shock
                THEN yc[c] + shock["all"]
                ELSE yc[c] + dict_get(shock, yield_labels[c], 0)]

\* shifts holds the shocked yields of the selected scenario
corp2_shifts(w, yc) == corp2_shifts_under(reg_preset, w, yc)

corp2_assets(w) ==
    <<[Type |-> "Cash", Balance |-> w.cash, Code |-> "GS3M"],
      [Type |-> "Loans", Balance |-> w.loans, Code |-> "GS5"],
      [Type |-> "Bonds", Balance |-> w.bonds, Code |-> "GS10"]>>

corp2_liabilities(w) ==
    <<[Type |-> "Deposits", Balance |-> w.deposits, Code |-> "GS1"]>>

corp2_calculate(df, yield_map, field) ==
    [sheet |-> df,
     df |-> [k \in 1..Len(df) |->
                LET rate == dict_get(yield_map, df[k].Code, 0) * 100
                IN  df[k] @@ ("Rate" :> rate)
                          @@ (field :> (df[k].Balance * rate) \div 100)]]

\* inc - exp under one curve
corp2_nii(a, l, m) ==
    col_sum(corp2_calculate(a, m, "Income").df, "Income")
        - col_sum(corp2_calculate(l, m, "Expense").df, "Expense")

corp2_reg_results(a, l, yc) ==
    [k \in 1..Len(reg_names) |->
        LET name == reg_names[k]
            ym == corp2_shock_yields(reg_preset[name], yc)
        IN  [Scenario |-> name, NII |-> round2(corp2_nii(a, l, ym))]]

\* net_bal that adds the liabilities instead of netting them
net_bal_gross(a, l) ==
    [c \in Codes |->
        col_sum(select_rows(a, "Code", {c}), "Balance")
            + col_sum(select_rows(l, "Code", {c}), "Balance")]

net_bal(a, l) ==
    [c \in Codes |->
        col_sum(select_rows(a, "Code", {c}), "Balance")
            - col_sum(select_rows(l, "Code", {c}), "Balance")]

RECURSIVE corp2_cum(_, _, _, _)
\* cum after the first n tenors of the loop
corp2_cum(nb, sh, yc, n) ==
    IF n = 0 THEN 0
    ELSE corp2_cum(nb, sh, yc, n - 1)
            + nb[yield_codes[n]] * (sh[yield_codes[n]] - yc[yield_codes[n]])

corp2_wf(nb, sh, yc) ==
    <<[Maturity |-> "Baseline", Start |-> 0, End |-> 0, DeltaNII |-> 0]>>
    \o [k \in 1..Len(yield_codes) |->
            LET c == yield_codes[k]
                cum == corp2_cum(nb, sh, yc, k - 1)
                delta == nb[c] * (sh[c] - yc[c])
            IN  [Maturity |-> yield_labels[c], Start |-> cum, End |-> cum + delta,
                 DeltaNII |-> round2(delta)]]
    \o <<[Maturity |-> "Total", Start |-> 0,
          End |-> corp2_cum(nb, sh, yc, Len(yield_codes)),
          DeltaNII |-> round2(corp2_cum(nb, sh, yc, Len(yield_codes)))]>>

corp2(w, yc) ==
    LET sh == corp2_shifts(w, yc)
        a == corp2_assets(w)
        l == corp2_liabilities(w)
        nb == net_bal(a, l)
    IN  [shifts |-> sh,
         base_nii |-> corp2_nii(a, l, yc),
         shift_nii |-> corp2_nii(a, l, sh),
         reg_results |-> corp2_reg_results(a, l, yc),
         net_bal |-> nb,
         wf |-> corp2_wf(nb, sh, yc),
         assets |-> corp2_calculate(a, sh, "Income").sheet,
         liabs |-> corp2_calculate(l, sh, "Expense").sheet]

-----------------------------------------------------------------------------
(* corp.py: flat shift; the script stops at its waterfall section          *)

corp_shift(w) ==
    IF w.scenario_name = "Custom" THEN w.bps_shift ELSE preset[w.scenario_name]

corp_calculate(sheet, ylds, field) ==
    [sheet |-> sheet,
     df |-> [k \in 1..Len(sheet) |->
                LET rate == dict_get(ylds, sheet[k].Code, 0) * 100
                IN  sheet[k] @@ ("Rate (%)" :> rate)
                             @@ (field :> (sheet[k].Balance * rate) \div 100)]]

corp_shifted(yc, shift) == [c \in DOMAIN yc |-> yc[c] + shift]

corp_nii(a, l, m) ==
    col_sum(corp_calculate(a, m, "Income").df, "Income")
        - col_sum(corp_calculate(l, m, "Expense").df, "Expense")

sc_df(a, l, yc) ==
    [k \in 1..Len(preset_names) |->
        LET n == preset_names[k]
            sy == [c \in DOMAIN yc |-> yc[c] + preset[n]]
        IN  [Scenario |-> n, NII |-> round2(corp_nii(a, l, sy))]]

\* The waterfall loop reads balances and current, names the script never
\* binds: the run ends there with a NameError and emits no waterfall.
corp(w, yc) ==
    LET sh == corp_shifted(yc, corp_shift(w))
        a_res == corp_calculate(assets(w), sh, "Income")
        l_res == corp_calculate(liabs(w), sh, "Expense")
    IN  [shifted |-> sh,
         a_calc |-> a_res.df,
         l_calc |-> l_res.df,
         ii |-> col_sum(a_res.df, "Income") - col_sum(l_res.df, "Expense"),
         sc_df |-> sc_df(a_res.sheet, l_res.sheet, yc),
         error |-> "NameError",
         assets |-> a_res.sheet,
         liabs |-> l_res.sheet]
-----------------------------------------------------------------------------
(* Sessions                                                                *)

Apps == {"corp_fin", "corp3", "corp2", "corp"}

\* number_input defaults ($M 120, 80, 40, 130, 40, 20), and a ledger of
\* $M 1 on every line
DefaultLedger ==
    [loans |-> 12000, bonds |-> 8000, cash |-> 4000,
     deposits |-> 13000, borrow |-> 4000, corp |-> 2000]

UnitLedger ==
    [loans |-> 100, bonds |-> 100, cash |-> 100,
     deposits |-> 100, borrow |-> 100, corp |-> 100]

\* corp2.py takes fractional balances ($M 120.40, 80.20, 40.00, 130.00)
FractionLedger ==
    [loans |-> 12040, bonds |-> 8020, cash |-> 4000, deposits |-> 13000]

Ledgers(a) ==
    IF a = "corp2"
    THEN {[k \in {"loans", "bonds", "cash", "deposits"} |-> DefaultLedger[k]],
          FractionLedger}
    ELSE {DefaultLedger, UnitLedger}

\* start and end balances of the P&L explain, at their defaults
ExplainDefaults ==
    [loans_start |-> 10000, bonds_start |-> 7000, cash_start |-> 3000,
     deposits_start |-> 11000, borrow_start |-> 3500, corp_start |-> 1500,
     loans_end |-> 12000, bonds_end |-> 8000, cash_end |-> 4000,
     deposits_end |-> 13000, borrow_end |-> 4000, corp_end |-> 2000,
     bu_choice |-> "All"]

\* the widgets of a script at their defaults, on the given ledger
Widgets(a, ledger) ==
    CASE a = "corp_fin" ->
            [bps_shift |-> 0, scenario_name |-> "Custom", macro_choice |-> "Baseline"]
                @@ ledger @@ ExplainDefaults
      [] a = "corp3" ->
            [bps_shift |-> 0, scenario_name |-> "Custom", macro_choice |-> "Baseline"]
                @@ ledger
      [] a = "corp2" ->
            [bps_shift |-> 0, scenario |-> "Custom", reg_choice |-> reg_names[1]]
                @@ ledger
      [] OTHER -> [bps_shift |-> 0, scenario_name |-> "Custom"] @@ ledger

\* yield curves FRED may return, in basis points
Curves ==
    {[GS3M |-> 430, GS1 |-> 410, GS5 |-> 400, GS10 |-> 445],
     [GS3M |-> 10, GS1 |-> 25, GS5 |-> 150, GS10 |-> 275]}

\* first and last row of the history of the analysis period, by label
Histories ==
    {[fy |-> ("3M" :> 10) @@ ("1Y" :> 25) @@ ("5Y" :> 150) @@ ("10Y" :> 275),
      ly |-> ("3M" :> 430) @@ ("1Y" :> 410) @@ ("5Y" :> 400) @@ ("10Y" :> 445)],
     [fy |-> ("3M" :> 430) @@ ("1Y" :> 410) @@ ("5Y" :> 400) @@ ("10Y" :> 445),
      ly |-> ("3M" :> 405) @@ ("1Y" :> 410) @@ ("5Y" :> 380) @@ ("10Y" :> 450)]}

\* values a balance widget is set to: whole $M, or any hundredth in corp2.py
BalanceValues(a) == IF a = "corp2" THEN {0, 40, 12040} ELSE {0, 100, 12100}

BalanceWidgets(a) ==
    CASE a = "corp_fin" ->
            {"loans", "bonds", "cash", "deposits", "borrow", "corp"}
                \cup (DOMAIN ExplainDefaults \ {"bu_choice"})
      [] a = "corp2" -> {"loans", "bonds", "cash", "deposits"}
      [] OTHER -> {"loans", "bonds", "cash", "deposits", "borrow", "corp"}

\* positions of the slider (-300..300 in steps of 25) that are explored
BpsValues == {-300, -25, 25, 75}

ScenarioNames(a) ==
    {"Custom"} \cup
        IF a = "corp2" THEN {reg_names[k] : k \in 1..Len(reg_names)}
        ELSE {preset_names[k] : k \in 1..Len(preset_names)}

ScenarioWidget(a) == IF a = "corp2" THEN "scenario" ELSE "scenario_name"

\* One run of the served script, top to bottom.
Run(a, w, yc, h) ==
    CASE a = "corp_fin" -> corp_fin(w, yc, h)
      [] a = "corp3" -> corp3(w, yc)
      [] a = "corp2" -> corp2(w, yc)
      [] OTHER -> corp(w, yc)

Init ==
    /\ app \in Apps
    /\ ui \in {Widgets(app, l) : l \in Ledgers(app)}
    /\ yields_current \in Curves
    /\ hist \in IF app = "corp_fin" THEN Histories
                ELSE {CHOOSE h \in Histories : TRUE}
    /\ out = Run(app, ui, yields_current, hist)
    /\ edits = 0

\* A widget takes a new value and the script runs again.
Rerun(w) ==
    /\ edits < MaxEdits
    /\ edits' = edits + 1
    /\ ui' = w
    /\ out' = Run(app, w, yields_current, hist)
    /\ UNCHANGED <<app, yields_current, hist>>

SetBalance ==
    \E name \in BalanceWidgets(app), v \in BalanceValues(app) :
        /\ ui[name] # v
        /\ Rerun([ui EXCEPT ![name] = v])

SetShift ==
    \E v \in BpsValues :
        /\ ui.bps_shift # v
        /\ Rerun([ui EXCEPT !.bps_shift = v])

SetScenario ==
    \E s \in ScenarioNames(app) :
        /\ ui[ScenarioWidget(app)] # s
        /\ Rerun([ui EXCEPT ![ScenarioWidget(app)] = s])

SetMacro ==
    /\ app \in {"corp_fin", "corp3"}
    /\ \E m \in DOMAIN macro_scenarios :
        /\ ui.macro_choice # m
        /\ Rerun([ui EXCEPT !.macro_choice = m])

SetBusinessUnit ==
    /\ app = "corp_fin"
    /\ \E b \in {"All", "Corporate", "Retail"} :
        /\ ui.bu_choice # b
        /\ Rerun([ui EXCEPT !.bu_choice = b])

\* The analysis period changes: the history has another first and last row.
SetPeriod ==
    /\ app = "corp_fin"
    /\ edits < MaxEdits
    /\ \E h \in Histories :
        /\ h # hist
        /\ hist' = h
        /\ out' = Run(app, ui, yields_current, h)
    /\ edits' = edits + 1
    /\ UNCHANGED <<app, ui, yields_current>>

\* The cached yields have expired: the next run fetches the latest.
RefreshYields ==
    /\ edits < MaxEdits
    /\ \E yc \in Curves :
        /\ yc # yields_current
        /\ yields_current' = yc
        /\ out' = Run(app, ui, yc, hist)
    /\ edits' = edits + 1
    /\ UNCHANGED <<app, ui, hist>>

Next ==
    \/ SetShift
    \/ SetBalance
    \/ SetScenario
    \/ SetMacro
    \/ SetBusinessUnit
    \/ SetPeriod
    \/ RefreshYields

Spec == Init /\ [][Next]_vars
-----------------------------------------------------------------------------
(* The computations of the scripts called on their own, on arguments the   *)
(* sessions above never hand them: app is the script that holds the        *)
(* computation, ui its arguments, out what it returns, edits 1 once it ran *)

\* the selections of lines a frame may hold: at least one line
LineSets(types) == SUBSET types \ {{}}

\* assets and liabs frames that hold some of the six lines
GapArgs ==
    [fn : {"gap"}, ledger : {DefaultLedger, UnitLedger},
     a_types : LineSets(AssetTypes), l_types : LineSets(LiabTypes)]

\* corp_fin.py 316-324 on such frames
call_gap(args) ==
    LET a == with_bucket(select_rows(assets(args.ledger), "Type", args.a_types))
        l == with_bucket(select_rows(liabs(args.ledger), "Type", args.l_types))
    IN  [assets |-> a, liabs |-> l, gap |-> gap(a, l)]

\* shift mappings a registry of presets may hold: the four of reg_preset,
\* mappings that leave tenors out, and mappings with a key that is no tenor
\* of the curve
ShockSamples ==
    {reg_preset[n] : n \in DOMAIN reg_preset}
        \cup {("3M" :> 50), ("3M" :> -100) @@ ("10Y" :> -200),
              ("3M" :> 100) @@ ("30Y" :> 50), ("2Y" :> 25),
              ("3M" :> -100) @@ ("1Y" :> 0) @@ ("5Y" :> 100) @@ ("10Y" :> 200)
                  @@ ("30Y" :> 300)}

ShockArgs == [fn : {"shock"}, name : {"Sample"}, shock : ShockSamples]

\* corp2.py 61-71 and 123-130 on a registry that holds the one preset, the
\* preset selected; yields_current is what the name is bound to afterwards.
\* Neither loop raises: it reads the mapping with shock.get(label, 0) for
\* the labels of yield_codes only.
call_shock(args, yc) ==
    [shifts |-> corp2_shifts_under(args.name :> args.shock,
                                   [scenario |-> args.name, bps_shift |-> 0], yc),
     ym |-> corp2_shock_yields(args.shock, yc),
     yields_current |-> yc,
     raised |-> FALSE]

\* a ledger and the rate codes the yield mapping handed to calculate lacks
CalculateArgs(a) == [fn : {"calculate"}, ledger : Ledgers(a), missing : SUBSET Codes]

\* calculate of corp.py (83-92) and of corp2.py (96-109) on the two sheets
\* under a yield mapping without the missing codes.  No statement of either
\* helper raises: ylds.get(c, 0) answers 0 for a code the mapping lacks.
call_calculate(a, args, yc) ==
    LET ylds == [c \in Codes \ args.missing |-> yc[c]]
        a_res == IF a = "corp2"
                 THEN corp2_calculate(corp2_assets(args.ledger), ylds, "Income")
                 ELSE corp_calculate(assets(args.ledger), ylds, "Income")
        l_res == IF a = "corp2"
                 THEN corp2_calculate(corp2_liabilities(args.ledger), ylds, "Expense")
                 ELSE corp_calculate(liabs(args.ledger), ylds, "Expense")
    IN  [raised |-> FALSE,
         ylds |-> ylds,
         a_calc |-> a_res.df,
         l_calc |-> l_res.df,
         nii |-> col_sum(a_res.df, "Income") - col_sum(l_res.df, "Expense")]

\* the lines a start or an end frame may hold: all six, or all but one
FrameTypes == {S \in SUBSET (AssetTypes \cup LiabTypes) : Cardinality(S) >= 5}

AttributionArgs ==
    [fn : {"attribution"}, w : {Widgets("corp_fin", DefaultLedger)},
     start_types : FrameTypes, end_types : FrameTypes]

\* corp_fin.py 263-274 on a start and an end frame that hold the given
\* lines.  zip stops at the shorter of its arguments and raises nothing.
call_attribution(args, h) ==
    LET sd == select_rows(start_df(args.w), "Type", args.start_types)
        ed == select_rows(end_df(args.w), "Type", args.end_types)
        a0 == select_rows(sd, "Type", AssetTypes)
        a1 == select_rows(ed, "Type", AssetTypes)
        l0 == select_rows(sd, "Type", LiabTypes)
        l1 == select_rows(ed, "Type", LiabTypes)
    IN  [raised |-> FALSE,
         a0 |-> a0, a1 |-> a1, l0 |-> l0, l1 |-> l1,
         vol_var |-> vol_var(a0, a1, l0, l1, r0_map(h)),
         mix_var |-> mix_var(a0, a1, l0, l1, r0_map(h), r1_map(h))]

CallsInit ==
    /\ \/ app = "corp_fin" /\ ui \in GapArgs
       \/ app = "corp2" /\ ui \in ShockArgs
       \/ app \in {"corp", "corp2"} /\ ui \in CalculateArgs(app)
       \/ app = "corp_fin" /\ ui \in AttributionArgs
    /\ yields_current \in IF ui.fn \in {"gap", "attribution"}
                          THEN {CHOOSE yc \in Curves : TRUE}
                          ELSE Curves
    /\ hist \in IF ui.fn = "attribution" THEN Histories
                ELSE {CHOOSE h \in Histories : TRUE}
    /\ out = <<>>
    /\ edits = 0

Return(result) ==
    /\ edits = 0
    /\ edits' = 1
    /\ out' = result
    /\ UNCHANGED <<app, ui, yields_current, hist>>

CallGap == ui.fn = "gap" /\ Return(call_gap(ui))

CallShock == ui.fn = "shock" /\ Return(call_shock(ui, yields_current))

CallCalculate == ui.fn = "calculate" /\ Return(call_calculate(app, ui, yields_current))

CallAttribution == ui.fn = "attribution" /\ Return(call_attribution(ui, hist))

CallsNext ==
    \/ CallGap
    \/ CallShock
    \/ CallCalculate
    \/ CallAttribution

Calls == CallsInit /\ [][CallsNext]_vars
-----------------------------------------------------------------------------
(* What the specification states, in the model's units                     *)

\* The six lines of the ledger of corp_fin.py, corp3.py and corp.py.
Lines ==
    <<[name |-> "loans", code |-> "GS5", side |-> 1, bu |-> "Corporate", bucket |-> "1-5Y"],
      [name |-> "bonds", code |-> "GS10", side |-> 1, bu |-> "Corporate", bucket |-> "5Y+"],
      [name |-> "cash", code |-> "GS3M", side |-> 1, bu |-> "Corporate", bucket |-> "0-3M"],
      [name |-> "deposits", code |-> "GS1", side |-> -1, bu |-> "Retail", bucket |-> "3-12M"],
      [name |-> "borrow", code |-> "GS3M", side |-> -1, bu |-> "Corporate", bucket |-> "0-3M"],
      [name |-> "corp", code |-> "GS3M", side |-> -1, bu |-> "Corporate", bucket |-> "5Y+"]>>

\* Sum over the lines of side * term(line): assets minus liabilities.
Netted(term(_)) == SeqSum([k \in 1..Len(Lines) |-> Lines[k].side * term(Lines[k])])

\* NII of the ledger held in the widgets bal (by line name) under curve m
LedgerNII(bal, m) ==
    LET term(line) == bal[line.name] * m[line.code]
    IN  Netted(term)

StartBal == [n \in {Lines[k].name : k \in 1..Len(Lines)} |-> ui[n \o "_start"]]
EndBal == [n \in {Lines[k].name : k \in 1..Len(Lines)} |-> ui[n \o "_end"]]

ExplainRan == app = "corp_fin" /\ ui.bu_choice = "All"

\* C1: with the business unit filter 'All', the five values of the P&L
\* explain are single numbers and starting_nii + rate_variance +
\* volume_variance + mix_variance = ending_nii.
C1_AttributionIdentity ==
    ExplainRan =>
        /\ \A f \in {"nii0", "rate_var", "vol_var", "mix_var", "nii1"} :
                out[f].kind = "scalar"
        /\ out.nii0.v + out.rate_var.v + out.vol_var.v + out.mix_var.v = out.nii1.v

\* C2: rate_variance is the sum over the asset lines of start balance times
\* the rate change of the line's own tenor, minus the same sum over the
\* liability lines.
C2_RateVarianceOwnTenor ==
    ExplainRan =>
        LET term(line) ==
                StartBal[line.name]
                    * (r1_map(hist)[line.code] - r0_map(hist)[line.code])
        IN  out.rate_var = Scalar(Netted(term))

\* C3: starting_nii is the NII of the start ledger under the start curve and
\* ending_nii the NII of the end ledger under the end curve.
C3_StartEndNII ==
    ExplainRan =>
        /\ out.nii0 = Scalar(LedgerNII(StartBal, r0_map(hist)))
        /\ out.nii1 = Scalar(LedgerNII(EndBal, r1_map(hist)))

\* C4: volume_variance is the sum over the asset lines of (end balance -
\* start balance of the same line) times the start rate of the line's own
\* tenor, minus the same sum over the liability lines; under a business unit
\* filter the sums range over the lines of that unit.
C4_VolumeVariance ==
    app = "corp_fin" =>
        LET term(line) ==
                IF ui.bu_choice \in {"All", line.bu}
                THEN (EndBal[line.name] - StartBal[line.name]) * r0_map(hist)[line.code]
                ELSE 0
        IN  out.vol_var = Scalar(Netted(term))

\* C4 witness: all six lines are in, every balance has moved, and the asset
\* and the liability side both contribute
C4_Witness ==
    /\ ExplainRan
    /\ \A k \in 1..Len(Lines) : EndBal[Lines[k].name] # StartBal[Lines[k].name]
    /\ out.vol_var.kind = "scalar"
    /\ out.vol_var.v # 0
    /\ edits = 1
\* The waterfall the served script emits (corp.py emits none).
Waterfall ==
    CASE app = "corp_fin" -> out.wf1
      [] app = "corp3" -> out.wf
      [] app = "corp2" -> out.wf

\* The NII the served script reports for the selected scenario.
ReportedNII ==
    CASE app = "corp_fin" -> out.stressed_nii
      [] app = "corp3" -> out.nii
      [] app = "corp" -> out.ii

\* the frame columns a computation adds
Computed == {"Rate(%)", "Rate (%)", "Rate", "Income", "Expense"}

\* C5: the NII calculator returns (sum over the asset lines of balance *
\* curve[tenor]) - (the same over the liability lines), the percent round
\* trip of the rate changing nothing, and leaves the ledger it was given as
\* it was: the entered balances, no rate, income or expense column.
C5_NIICalculator ==
    app \in {"corp_fin", "corp3", "corp"} =>
        /\ ReportedNII = LedgerNII(ui, out.shifted)
        /\ \A k \in 1..3 :
            /\ out.assets[k].Balance = ui[Lines[k].name]
            /\ out.liabs[k].Balance = ui[Lines[k + 3].name]
            /\ DOMAIN out.assets[k] \cap Computed = {}
            /\ DOMAIN out.liabs[k] \cap Computed = {}
            /\ out.a_calc[k].Income = ui[Lines[k].name] * out.shifted[Lines[k].code]
            /\ out.l_calc[k].Expense = ui[Lines[k + 3].name] * out.shifted[Lines[k + 3].code]

\* C5 witness: a run under a shifted curve with income, expense and a NII
\* that are not zero
C5_Witness ==
    /\ app = "corp3"
    /\ edits = 1
    /\ out.shifted # yields_current
    /\ out.nii # 0
    /\ \A k \in 1..3 : out.a_calc[k].Income # 0 /\ out.l_calc[k].Expense # 0

\* C6: in corp2.py the End of the 'Total' step, the unrounded cumulative
\* total, is shift_nii - base_nii.
C6_WaterfallTotal ==
    app = "corp2" =>
        /\ out.wf[Len(out.wf)].Maturity = "Total"
        /\ out.wf[Len(out.wf)].End = out.shift_nii - out.base_nii

\* C6 witness: a regulatory preset on a ledger with assets and deposits, the
\* total not zero
C6_Witness ==
    /\ app = "corp2"
    /\ ui.scenario \notin {"Custom", "Parallel +200 bp"}
    /\ ui.deposits # 0 /\ ui.cash # 0 /\ ui.loans # 0 /\ ui.bonds # 0
    /\ out.wf[Len(out.wf)].End # 0

\* net position of the six-line ledger at one rate code
NetPosition(c) ==
    LET term(line) == IF line.code = c THEN ui[line.name] ELSE 0
    IN  Netted(term)

\* C7: in corp_fin.py and corp3.py the delta of each tenor step before
\* rounding is net_position[tenor] * (shifted[tenor] - current[tenor]), and
\* so the unrounded total is the stressed NII minus the baseline NII.
C7_NettedTenorDelta ==
    app \in {"corp_fin", "corp3"} =>
        LET t == IF app = "corp_fin"
                 THEN tenor_income(ui, yields_current, out.shifted)
                 ELSE corp3_tenor_income(ui, yields_current, out.shifted)
            total == SeqSum([k \in 1..Len(t) |-> t[k].i1 - t[k].i0])
        IN  /\ \A k \in 1..Len(t) :
                t[k].i1 - t[k].i0 =
                    NetPosition(yield_codes[k])
                        * (out.shifted[yield_codes[k]] - yields_current[yield_codes[k]])
            /\ total = LedgerNII(ui, out.shifted) - LedgerNII(ui, yields_current)

\* C8: the steps of corp2.py form a strict running-sum chain: the first step
\* is 'Baseline' with Start = End = 0 and every later step, 'Total' included,
\* starts where the step before it ends.
C8_RunningSumChain ==
    app = "corp2" =>
        /\ out.wf[1].Maturity = "Baseline"
        /\ out.wf[1].Start = 0 /\ out.wf[1].End = 0
        /\ \A k \in 1..(Len(out.wf) - 1) : out.wf[k + 1].Start = out.wf[k].End

\* C9: in every emitted waterfall the delta reported on the 'Total' step is
\* the sum of the deltas reported on the per-tenor steps.
C9_TotalIsSumOfReported ==
    app \in {"corp_fin", "corp3", "corp2"} =>
        LET wf == Waterfall
        IN  wf[Len(wf)].DeltaNII =
                SeqSum([k \in 1..(Len(wf) - 2) |-> wf[k + 1].DeltaNII])

\* C10: for every bucket, gap[bucket] = (sum of the balances of the asset
\* lines mapped to it) - (sum of the balances of the liability lines mapped
\* to it), also for a bucket with lines on one side only.
C10_GapPerBucket ==
    app = "corp_fin" =>
        \A b \in {dur_keys[k] : k \in 1..Len(dur_keys)} :
            LET term(line) == IF line.bucket = b THEN ui[line.name] ELSE 0
            IN  out.gap[b] = Num(Netted(term))


\* the buckets of dur_map
Buckets == {dur_keys[k] : k \in 1..Len(dur_keys)}

\* the buckets at least one row of the frame is mapped to
BucketsOf(frame) == {frame[k].Bucket : k \in 1..Len(frame)}

GapCalled == ui.fn = "gap" /\ edits = 1

\* C11: the gap result has an entry for every bucket of the duration map,
\* each entry a number; a bucket no asset line and no liability line is
\* mapped to has gap exactly 0 (the computation returns, with no error).
C11_GapEveryBucket ==
    GapCalled =>
        /\ DOMAIN out.gap = Buckets
        /\ \A b \in Buckets :
            /\ ~out.gap[b].nan
            /\ b \notin BucketsOf(out.assets) \cup BucketsOf(out.liabs)
                => out.gap[b] = Num(0)

\* C11 witness: a bucket without a line on either side, next to a bucket
\* with lines on both sides and a gap that is not 0
C11_Witness ==
    /\ GapCalled
    /\ \E b \in Buckets : b \notin BucketsOf(out.assets) \cup BucketsOf(out.liabs)
    /\ \E b \in BucketsOf(out.assets) \cap BucketsOf(out.liabs) : out.gap[b].v # 0


\* C12: there is exactly one DV01 row per (scenario, bucket) pair, and its
\* DV01 is gap[bucket] * duration[bucket] * s with s the scenario's flat
\* shift in basis points (0, -100, -250).  Rows are in 1/800 of $M x year:
\* (gap / 100) * (duration / 4) * s = 2 * gap * duration * s / 800.
C12_DV01Rows ==
    app = "corp_fin" =>
        LET s_bp == ("Baseline" :> 0) @@ ("Adverse" :> -100)
                        @@ ("Severely Adverse" :> -250)
            rows == out.dv01_rows
        IN  /\ \A s \in DOMAIN s_bp, b \in Buckets :
                Cardinality({i \in DOMAIN rows :
                                rows[i].Scenario = s /\ rows[i].Bucket = b}) = 1
            /\ Len(rows) = Cardinality(DOMAIN s_bp) * Cardinality(Buckets)
            /\ \A i \in DOMAIN rows :
                rows[i].DV01 =
                    2 * out.gap[rows[i].Bucket].v * dur_map[rows[i].Bucket]
                        * s_bp[rows[i].Scenario]


\* C13: any two ledger lines that carry the same rate code are placed in the
\* same tenor bucket, and so get the same duration.
C13_BucketByTenor ==
    app = "corp_fin" =>
        LET rows == out.assets \o out.liabs
        IN  \A i, j \in DOMAIN rows :
                rows[i].Code = rows[j].Code =>
                    /\ rows[i].Bucket = rows[j].Bucket
                    /\ dur_map[rows[i].Bucket] = dur_map[rows[j].Bucket]


\* the labels of the tenors of the curve
Labels == {yield_labels[c] : c \in Codes}

ShockCalled == ui.fn = "shock" /\ edits = 1

\* C14: for a preset given as a tenor->shift mapping and every tenor of the
\* curve, the shocked yield is the baseline yield + the mapping's entry for
\* the tenor, and the baseline yield when the mapping has no entry; nothing
\* is clamped and the baseline curve is as it was.  For every preset the
\* curve built for the selected scenario and the curve built for the same
\* preset in the all-scenarios comparison are the same.
C14_PerTenorShock ==
    ShockCalled =>
        /\ out.shifts = out.ym
        /\ out.yields_current = yields_current
        /\ DOMAIN ui.shock \subseteq Labels =>
            \A c \in Codes :
                out.shifts[c] =
                    IF yield_labels[c] \in DOMAIN ui.shock
                    THEN yields_current[c] + ui.shock[yield_labels[c]]
                    ELSE yields_current[c]

\* C14 witness: a mapping with an entry for one tenor and none for another,
\* and a shocked yield below zero
C14_Witness ==
    /\ ShockCalled
    /\ DOMAIN ui.shock \subseteq Labels
    /\ \E c \in Codes : yield_labels[c] \notin DOMAIN ui.shock
                            /\ out.shifts[c] = yields_current[c]
    /\ \E c \in Codes : yield_labels[c] \in DOMAIN ui.shock /\ out.shifts[c] < 0


\* The sweeps the served script runs, each with the names of its registry in
\* the registry's order and the shift of each scenario.
Sweeps ==
    LET flat == [k \in 1..Len(preset_names) |-> [c \in Codes |-> preset[preset_names[k]]]]
        macro == [k \in 1..Len(macro_names) |-> macro_scenarios[macro_names[k]].shifts]
    IN  CASE app = "corp" ->
                {[rows |-> out.sc_df, names |-> preset_names, shifts |-> flat]}
          [] app \in {"corp_fin", "corp3"} ->
                {[rows |-> out.rs, names |-> preset_names, shifts |-> flat],
                 [rows |-> out.ms, names |-> macro_names, shifts |-> macro]}
          [] OTHER -> {}

\* the NII of the ledger of the widgets under base curve + shift
SweepNII(shift) == LedgerNII(ui, [c \in Codes |-> yields_current[c] + shift[c]])

\* C15: a sweep emits exactly one result per scenario of its registry, in
\* the registry's order and never sorted by NII value: the i-th result has
\* the name of the i-th scenario and the NII of that scenario, as the table
\* holds it.
C15_SweepOrder ==
    \A s \in Sweeps :
        /\ Len(s.rows) = Len(s.names)
        /\ \A i \in DOMAIN s.rows :
            /\ s.rows[i].Scenario = s.names[i]
            /\ s.rows[i].NII = round2(SweepNII(s.shifts[i]))

\* C15 witness: a run of corp_fin.py after an edit whose rate-shock sweep is
\* neither ascending nor descending in NII
C15_Witness ==
    /\ app = "corp_fin"
    /\ edits = 1
    /\ \E i, j \in DOMAIN out.rs : i < j /\ out.rs[i].NII < out.rs[j].NII
    /\ \E i, j \in DOMAIN out.rs : i < j /\ out.rs[i].NII > out.rs[j].NII


\* the NII of the four-line ledger of corp2.py under curve m
Corp2NII(m) ==
    ui.cash * m["GS3M"] + ui.loans * m["GS5"] + ui.bonds * m["GS10"]
        - ui.deposits * m["GS1"]

\* C16: for every scenario of a sweep the nii value held in the result table
\* is exactly the NII of the ledger under base curve + the scenario's shift,
\* not that value rounded to 2 decimals.
C16_SweepNotRounded ==
    /\ \A s \in Sweeps :
        \A i \in DOMAIN s.rows : s.rows[i].NII = SweepNII(s.shifts[i])
    /\ app = "corp2" =>
        \A k \in DOMAIN out.reg_results :
            out.reg_results[k].NII =
                Corp2NII(corp2_shock_yields(reg_preset[reg_names[k]], yields_current))


CalculateCalled == ui.fn = "calculate" /\ edits = 1

\* the rate codes of the lines of the two sheets calculate was given
CodesOf(rows) == {rows[k].Code : k \in 1..Len(rows)}

\* C17: when a ledger line has a rate code the yield mapping handed to the
\* NII helper has no entry for, the computation fails with an error and
\* gives no income, expense or NII value (the missing rate is not taken
\* as 0).
C17_MissingTenorRate ==
    CalculateCalled /\ ~(CodesOf(out.a_calc \o out.l_calc) \subseteq DOMAIN out.ylds)
        => /\ out.raised
           /\ DOMAIN out \cap {"a_calc", "l_calc", "nii"} = {}


AttributionCalled == ui.fn = "attribution" /\ edits = 1

\* C18: when the start and the end positions handed to the attribution do
\* not hold the same lines, the computation fails and returns no variance
\* value (lines are not paired by their place in the list, the unmatched
\* ones dropped).
C18_MismatchedLedgers ==
    AttributionCalled /\ ui.start_types # ui.end_types
        => /\ out.raised
           /\ DOMAIN out \cap {"vol_var", "mix_var"} = {}

ShockCalledUnknownKey ==
    ShockCalled /\ ~(DOMAIN ui.shock \subseteq Labels \cup {"all"})

\* C19: when the shift mapping of a named scenario has a key that is no
\* tenor of the curve, building the shocked curve fails (the unknown key is
\* not passed over) and no curve is returned.
C19_InvalidScenario ==
    ShockCalledUnknownKey
        => /\ out.raised
           /\ DOMAIN out \cap {"shifts", "ym"} = {}


\* the stressed NII a run of corp_fin.py or corp3.py leaves
StressedNII(o) == IF app = "corp_fin" THEN o.stressed_nii ELSE o.nii

\* the widgets with another rate-shock selection and slider position
Reselected(s, v) == [ui EXCEPT !.scenario_name = s, !.bps_shift = v]

\* the amount of the selected rate shock, in basis points
SelectedShock ==
    IF ui.scenario_name = "Custom" THEN ui.bps_shift ELSE preset[ui.scenario_name]

\* C20: in corp_fin.py and corp3.py, with a regulatory choice other than
\* 'Baseline' the stressed curve is the baseline curve + the regulatory
\* shifts and the stressed NII the NII of the balances under it, and a run
\* that differs only in the rate-shock selection or the slider gives the same
\* curve and the same NII; with the choice 'Baseline' every tenor is shifted
\* by the selected rate-shock amount.
C20_RegulatoryChoiceOverrides ==
    app \in {"corp_fin", "corp3"} =>
        IF ui.macro_choice = "Baseline"
        THEN \A c \in Codes : out.shifted[c] = yields_current[c] + SelectedShock
        ELSE /\ \A c \in Codes :
                    out.shifted[c] =
                        yields_current[c] + macro_scenarios[ui.macro_choice].shifts[c]
             /\ StressedNII(out) = LedgerNII(ui, out.shifted)
             /\ \A s \in ScenarioNames(app), v \in BpsValues \cup {0} :
                    LET other == Run(app, Reselected(s, v), yields_current, hist)
                    IN  /\ other.shifted = out.shifted
                        /\ StressedNII(other) = StressedNII(out)

\* C20 witness: a regulatory choice other than 'Baseline' that moves the
\* curve and the NII, reached by an edit
C20_Witness ==
    /\ app \in {"corp_fin", "corp3"}
    /\ edits = 1
    /\ ui.macro_choice # "Baseline"
    /\ out.shifted # yields_current
    /\ StressedNII(out) # LedgerNII(ui, yields_current)

=============================================================================
